---- MODULE Spec2Model ----
(***************************************************************************)
(* Session aggregation, fetch fallback and webhook delivery of the         *)
(* Marketing Scraper API (src/server.py).                                  *)
(*                                                                         *)
(* Every HTTP request is one coroutine of the single asyncio event loop.   *)
(* A coroutine runs without interruption between two awaits, so each       *)
(* action below is the code from one await (a database call, an outbound   *)
(* HTTP call) up to the next one; the database call or the HTTP call       *)
(* itself takes effect atomically inside the action.                       *)
(*                                                                         *)
(* A session's name, the timestamps (created_at, updated_at,              *)
(* completed_at, scraped_at) and the extraction bodies of a page are not   *)
(* part of the state: no handler branches on them.                         *)
(***************************************************************************)
EXTENDS Integers, Sequences, FiniteSets, TLC

\* Number of HTTP requests the clients issue in one run.
NumRequests == 3
\* Number of sessions that may be started in one run.
MaxSessions == 1

Requests == 1..NumRequests
\* The session ids a client may name; an id is unknown until start issued it.
SessionIds == 1..MaxSessions
\* The page ids a client may name in a delete: a run with a delete has room for
\* NumRequests - 2 scrapes; an id is unknown until a scrape issued it.
PageIds == 1..(NumRequests - 2)

\* Python's None for an Optional[str] field.
None == "None"
\* Optional[str] session_id left out of a ScrapeRequest.
NoSessionId == 0
Urls == {"http://a"}
WebhookUrls == {"hookA", "hookB"}

\* An outbound HTTP call that raised (connection error, timeout): no status code.
NoResponse == 0
\* scrape_result / response not assigned yet: the call has not been made.
NotTried == -1
\* What the Browserless call can do: raise, answer 200, answer another status.
PrimaryOutcomes == {NoResponse, 200, 500}
\* What the direct GET can do: raise, answer 200, answer an error status.
FallbackOutcomes == {NoResponse, 200, 404}
\* What the webhook endpoint can do: raise, answer 2xx, answer an error status.
WebhookOutcomes == {NoResponse, 200, 500}

VARIABLES
    sessions,   \* db.sessions: session_id -> session document
    scrapes,    \* db.scrapes: the stored scrape documents
    posts,      \* the webhook POSTs put on the network, in order
    pc,         \* per request: the await the coroutine is at
    req,        \* per request: the endpoint called and its arguments
    loc,        \* per request: the coroutine's local variables
    resp,       \* per request: the HTTP response returned
    extraction, \* one call of extract_videos: its arguments and its return value
    proxy       \* one call of proxy_website: its argument, the fetch and its response

vars == <<sessions, scrapes, posts, pc, req, loc, resp, extraction, proxy>>

\* What find_one leaves in `session` when the coroutine has not read one.
NoSession == [session_id |-> 0, pages |-> <<>>, total_pages |-> 0, status |-> None]

NoRequest == [op |-> None, session_id |-> 0, page_id |-> 0, url |-> None, webhook_url |-> None]

NoLocals == [session |-> NoSession, primary |-> NotTried, fallback |-> NotTried, scrape_id |-> 0]

NoReply == [status_code |-> 0, success |-> FALSE, session_id |-> 0, page_id |-> 0, webhook |-> None, webhook_status |-> 0]

\* raise HTTPException(status_code=code, ...)
HTTPException(code) == [NoReply EXCEPT !.status_code = code]

\* A handler's normal return: FastAPI answers 200.
Ok == [NoReply EXCEPT !.status_code = 200, !.success = TRUE]

\* A URL found in the HTML, or none.
NoUrl == [form |-> None, id |-> 0]

\* No call of extract_videos is under way.
NoExtraction ==
    [html |-> <<>>,
     options |-> [extract_youtube |-> TRUE, extract_vimeo |-> TRUE, extract_all_videos |-> TRUE],
     videos |-> <<>>,
     done |-> FALSE]

\* The body of a fetched response: whether it has a <head> and the names of
\* the elements in it.
NoDocument == [has_head |-> FALSE, head |-> <<>>]

\* No call of proxy_website is under way.
NoProxy ==
    [url |-> None,
     fetch |-> [status_code |-> NoResponse, content_type |-> None, body |-> NoDocument],
     reply |-> [status_code |-> 0, media_type |-> None, parsed |-> FALSE, content |-> NoDocument],
     done |-> FALSE]

Init ==
    /\ sessions = <<>>
    /\ scrapes = {}
    /\ posts = <<>>
    /\ pc = [r \in Requests |-> "idle"]
    /\ req = [r \in Requests |-> NoRequest]
    /\ loc = [r \in Requests |-> NoLocals]
    /\ resp = [r \in Requests |-> NoReply]
    /\ extraction = NoExtraction
    /\ proxy = NoProxy

\* Requests are numbered in the order they arrive.
Arrives(r) ==
    /\ pc[r] = "idle"
    /\ \A q \in Requests : q < r => pc[q] # "idle"

\* The handler returns or raises: the response goes out and the coroutine's
\* local variables are gone.
Finish(r, reply) ==
    /\ pc' = [pc EXCEPT ![r] = "done"]
    /\ resp' = [resp EXCEPT ![r] = reply]
    /\ loc' = [loc EXCEPT ![r] = NoLocals]

\* The coroutine goes on to its next await.
Goto(r, label) ==
    /\ pc' = [pc EXCEPT ![r] = label]
    /\ UNCHANGED resp

\* str(uuid.uuid4()): an id no document has yet.
NewSessionId == Len(sessions) + 1
NewScrapeId == Cardinality(scrapes) + 1

\* ---- POST /api/session/start ----
StartSession(r, webhook_url) ==
    /\ Arrives(r)
    /\ Len(sessions) < MaxSessions
    /\ req' = [req EXCEPT ![r] = [NoRequest EXCEPT !.op = "start", !.webhook_url = webhook_url]]
    /\ sessions' = Append(sessions,
            [session_id |-> NewSessionId,
             pages |-> <<>>,
             total_pages |-> 0,
             status |-> "active"])
    /\ Finish(r, [Ok EXCEPT !.session_id = NewSessionId])
    /\ UNCHANGED <<scrapes, posts>>

\* ---- POST /api/scrape: scrape_url, up to its first await ----
ScrapeUrl(r, url) ==
    /\ Arrives(r)
    /\ req' = [req EXCEPT ![r] = [NoRequest EXCEPT !.op = "extract", !.url = url]]
    /\ Goto(r, "fetch_primary")
    /\ UNCHANGED <<sessions, scrapes, posts, loc>>

\* ---- POST /api/session/scrape: scrape_to_session, up to the call of scrape_url ----
ScrapeToSession(r, session_id, url) ==
    /\ Arrives(r)
    /\ req' = [req EXCEPT ![r] = [NoRequest EXCEPT !.op = "scrape", !.session_id = session_id, !.url = url]]
    /\ IF session_id = NoSessionId
       THEN Finish(r, HTTPException(400))
       ELSE IF session_id \notin DOMAIN sessions
       THEN Finish(r, HTTPException(404))
       ELSE /\ loc' = [loc EXCEPT ![r].session = sessions[session_id]]
            /\ Goto(r, "fetch_primary")
    /\ UNCHANGED <<sessions, scrapes, posts>>

\* scrape_with_browserless: the POST to the rendering service.
FetchPrimary(r, outcome) ==
    /\ pc[r] = "fetch_primary"
    /\ loc' = [loc EXCEPT ![r].primary = outcome]
    /\ IF outcome = 200
       THEN Goto(r, "save")
       ELSE Goto(r, "fetch_fallback")
    /\ UNCHANGED <<sessions, scrapes, posts, req>>

\* simple_scrape: the direct GET; any answer is a success, only an exception is not.
FetchFallback(r, outcome) ==
    /\ pc[r] = "fetch_fallback"
    /\ IF outcome = NoResponse
       THEN Finish(r, HTTPException(500))
       ELSE /\ loc' = [loc EXCEPT ![r].fallback = outcome]
            /\ Goto(r, "save")
    /\ UNCHANGED <<sessions, scrapes, posts, req>>

\* scrape_url after the fetch: build the result and insert it into db.scrapes.
SaveScrape(r) ==
    /\ pc[r] = "save"
    /\ scrapes' = scrapes \cup {[scrape_id |-> NewScrapeId, url |-> req[r].url]}
    /\ IF req[r].op = "extract"
       THEN Finish(r, [Ok EXCEPT !.page_id = NewScrapeId])
       ELSE /\ loc' = [loc EXCEPT ![r].scrape_id = NewScrapeId]
            /\ Goto(r, "push")
    /\ UNCHANGED <<sessions, posts, req>>

\* The page scrape_to_session builds from the scrape result.
PageData(r) == [page_id |-> loc[r].scrape_id, url |-> req[r].url]

\* An append that writes back the document read at the start of the handler.
PushReadThenWrite(r) ==
    [sessions EXCEPT ![req[r].session_id] =
        [@ EXCEPT !.pages = Append(loc[r].session.pages, PageData(r)),
                  !.total_pages = loc[r].session.total_pages + 1]]

\* update_one with $push pages, $inc total_pages by 1 (and $set updated_at): one atomic update.
PushUpdate(r) ==
    [sessions EXCEPT ![req[r].session_id] =
        [@ EXCEPT !.pages = Append(@, PageData(r)),
                  !.total_pages = @ + 1]]

\* scrape_to_session after scrape_url returned: append the page.
PushPage(r) ==
    /\ pc[r] = "push"
    /\ sessions' = PushUpdate(r)
    /\ Finish(r, [Ok EXCEPT !.session_id = req[r].session_id, !.page_id = loc[r].scrape_id])
    /\ UNCHANGED <<scrapes, posts, req>>

\* $pull: drop every element of pages whose page_id matches.
Pull(pages, page_id) == SelectSeq(pages, LAMBDA p : p.page_id # page_id)

\* update_one with $pull pages {page_id}, $inc total_pages by -1.
DeleteUpdate(doc, page_id) ==
    [doc EXCEPT !.pages = Pull(@, page_id), !.total_pages = @ - 1]

\* UpdateResult.modified_count of an update_one: 0 when no document matched
\* the filter or the update left the matched document as it was.
ModifiedCount(session_id, newdoc) ==
    IF session_id \notin DOMAIN sessions THEN 0
    ELSE IF newdoc = sessions[session_id] THEN 0 ELSE 1

\* ---- DELETE /api/session/{session_id}/page/{page_id} ----
DeletePage(r, session_id, page_id) ==
    /\ Arrives(r)
    /\ req' = [req EXCEPT ![r] = [NoRequest EXCEPT !.op = "delete", !.session_id = session_id, !.page_id = page_id]]
    /\ LET newdoc == IF session_id \in DOMAIN sessions
                     THEN DeleteUpdate(sessions[session_id], page_id)
                     ELSE NoSession
       IN  /\ sessions' = IF session_id \in DOMAIN sessions
                          THEN [sessions EXCEPT ![session_id] = newdoc]
                          ELSE sessions
           /\ IF ModifiedCount(session_id, newdoc) = 0
              THEN Finish(r, HTTPException(404))
              ELSE Finish(r, Ok)
    /\ UNCHANGED <<scrapes, posts>>

\* ---- POST /api/session/complete: up to the status update ----
CompleteSession(r, session_id, webhook_url) ==
    /\ Arrives(r)
    /\ req' = [req EXCEPT ![r] = [NoRequest EXCEPT !.op = "complete", !.session_id = session_id, !.webhook_url = webhook_url]]
    /\ IF session_id \notin DOMAIN sessions
       THEN Finish(r, HTTPException(404))
       ELSE /\ loc' = [loc EXCEPT ![r].session = sessions[session_id]]
            /\ Goto(r, "mark")
    /\ UNCHANGED <<sessions, scrapes, posts>>

\* A status update that records the delivery before it is made.
MarkBeforeDelivery(r) ==
    [sessions EXCEPT ![req[r].session_id].status =
        IF req[r].webhook_url # None THEN "sent" ELSE "completed"]

\* update_one with $set status 'completed' (and completed_at).
MarkUpdate(r) ==
    [sessions EXCEPT ![req[r].session_id].status = "completed"]

\* complete_session: the status update, then the branch on request.webhook_url.
MarkCompleted(r) ==
    /\ pc[r] = "mark"
    /\ sessions' = MarkUpdate(r)
    /\ IF req[r].webhook_url # None
       THEN /\ Goto(r, "post")
            /\ UNCHANGED loc
       ELSE Finish(r, [Ok EXCEPT !.session_id = req[r].session_id])
    /\ UNCHANGED <<scrapes, posts, req>>

\* A delivery whose exception is not caught and fails the request.
WebhookResultRaises(r, outcome) ==
    IF outcome = NoResponse
    THEN HTTPException(500)
    ELSE [Ok EXCEPT !.session_id = req[r].session_id, !.webhook = "sent", !.webhook_status = outcome]

\* The return of complete_session with webhook_result: {'sent': True, 'status_code'}
\* or, on an exception, {'sent': False, 'error'}.
WebhookResult(r, outcome) ==
    IF outcome = NoResponse
    THEN [Ok EXCEPT !.session_id = req[r].session_id, !.webhook = "error"]
    ELSE [Ok EXCEPT !.session_id = req[r].session_id, !.webhook = "sent", !.webhook_status = outcome]

\* complete_session: the POST of the session read at the start to request.webhook_url.
PostWebhook(r, outcome) ==
    /\ pc[r] = "post"
    /\ posts' = Append(posts, [by |-> r, url |-> req[r].webhook_url, json |-> loc[r].session, outcome |-> outcome])
    /\ Finish(r, WebhookResult(r, outcome))
    /\ UNCHANGED <<sessions, scrapes, req>>

OptionalOf(S) == S \cup {None}

Next ==
  /\ UNCHANGED <<extraction, proxy>>
  /\
    \E r \in Requests :
        \/ \E webhook_url \in OptionalOf(WebhookUrls) : StartSession(r, webhook_url)
        \/ \E url \in Urls : ScrapeUrl(r, url)
        \/ \E session_id \in SessionIds \cup {NoSessionId}, url \in Urls :
                ScrapeToSession(r, session_id, url)
        \/ \E outcome \in PrimaryOutcomes : FetchPrimary(r, outcome)
        \/ \E outcome \in FallbackOutcomes : FetchFallback(r, outcome)
        \/ SaveScrape(r)
        \/ PushPage(r)
        \/ \E session_id \in SessionIds, page_id \in PageIds :
                DeletePage(r, session_id, page_id)
        \/ \E session_id \in SessionIds, webhook_url \in OptionalOf(WebhookUrls) :
                CompleteSession(r, session_id, webhook_url)
        \/ MarkCompleted(r)
        \/ \E outcome \in WebhookOutcomes : PostWebhook(r, outcome)

Spec == Init /\ [][Next]_vars

\* Clients that only start sessions and scrape into them.
NextScrapes ==
  /\ UNCHANGED <<extraction, proxy>>
  /\
    \E r \in Requests :
        \/ \E webhook_url \in OptionalOf(WebhookUrls) : StartSession(r, webhook_url)
        \/ \E session_id \in SessionIds \cup {NoSessionId}, url \in Urls :
                ScrapeToSession(r, session_id, url)
        \/ \E outcome \in PrimaryOutcomes : FetchPrimary(r, outcome)
        \/ \E outcome \in FallbackOutcomes : FetchFallback(r, outcome)
        \/ SaveScrape(r)
        \/ PushPage(r)

SpecScrapes == Init /\ [][NextScrapes]_vars

(***************************************************************************)
(* Properties                                                              *)
(***************************************************************************)

HasPage(doc, page_id) == \E i \in DOMAIN doc.pages : doc.pages[i].page_id = page_id

\* The requests of an endpoint that have returned.
Returned(op) == {r \in Requests : pc[r] = "done" /\ req[r].op = op}

\* The webhook POSTs a request made.
PostsBy(r) == {i \in DOMAIN posts : posts[i].by = r}

\* C1: in every session total_pages is the length of the page list, and is
\* never negative, whatever scrape and removePage calls were made.
C1_TotalPagesIsPageCount ==
    \A s \in DOMAIN sessions :
        /\ sessions[s].total_pages = Len(sessions[s].pages)
        /\ sessions[s].total_pages >= 0

\* C2: a session scrape call that arrives once the session is completed (or
\* sent) fails at once with a client error, and the page list of a completed
\* or sent session never grows.
C2_CompletedSessionRejectsScrape ==
    [][ /\ \A r \in Requests :
            ( /\ pc[r] = "idle"
              /\ req'[r].op = "scrape"
              /\ req'[r].session_id \in DOMAIN sessions
              /\ sessions[req'[r].session_id].status \in {"completed", "sent"} )
            => ( /\ pc'[r] = "done"
                 /\ resp'[r].status_code \in 400..499 )
        /\ \A s \in DOMAIN sessions :
            sessions[s].status \in {"completed", "sent"}
            => Len(sessions'[s].pages) <= Len(sessions[s].pages)
      ]_vars

\* C3: removePage answers NotFound (404) exactly when the session does not
\* exist or holds no page with that page_id; it answers success only when the
\* page was there and is removed.
C3_RemovePageNotFound ==
    [][ \A r \in Requests :
            (pc[r] = "idle" /\ req'[r].op = "delete")
            => LET sid == req'[r].session_id
                   pid == req'[r].page_id
                   present == sid \in DOMAIN sessions /\ HasPage(sessions[sid], pid)
               IN  /\ pc'[r] = "done"
                   /\ ~present => resp'[r].status_code = 404
                   /\ present => /\ resp'[r].success
                                  /\ ~HasPage(sessions'[sid], pid)
      ]_vars

\* C4: when complete posted the webhook and the POST returned without a
\* transport error (any HTTP status), the stored session status is sent.
C4_DeliveredSessionIsSent ==
    \A r \in Returned("complete") :
        resp[r].webhook = "sent" => sessions[req[r].session_id].status = "sent"

\* C5: a complete call whose webhook POST failed at transport level returns
\* success: true with webhook {sent: false, error}, leaves the stored status
\* completed, and made exactly one POST.
C5_DeliveryFailureIsData ==
    \A r \in Returned("complete") :
        (resp[r].status_code # 404 /\ req[r].webhook_url # None)
        => /\ Cardinality(PostsBy(r)) = 1
           /\ \A i \in PostsBy(r) :
                posts[i].outcome = NoResponse
                => /\ resp[r].status_code = 200
                   /\ resp[r].success
                   /\ resp[r].webhook = "error"
                   /\ sessions[req[r].session_id].status = "completed"

\* A complete call on an existing session has returned after its one POST
\* failed at transport level.
C5_Witness ==
    \E r \in Returned("complete") :
        /\ resp[r].webhook = "error"
        /\ \E i \in PostsBy(r) : posts[i].outcome = NoResponse /\ posts[i].url = req[r].webhook_url

StatusRank(status) ==
    IF status = "active" THEN 1 ELSE IF status = "completed" THEN 2 ELSE 3

\* C6: no step takes a session's status backwards along
\* active -> completed -> sent, and a complete call on an existing session
\* never ends in an error, however often it is repeated.
C6_StatusOnlyAdvances ==
    [][ /\ \A s \in DOMAIN sessions :
            /\ sessions'[s].status \in {"active", "completed", "sent"}
            /\ StatusRank(sessions'[s].status) >= StatusRank(sessions[s].status)
        /\ \A r \in Requests :
            ( /\ req'[r].op = "complete"
              /\ pc[r] # "done"
              /\ pc'[r] = "done"
              /\ req'[r].session_id \in DOMAIN sessions )
            => resp'[r].success
      ]_vars

\* Two complete calls on the same session have both returned.
C6_Witness ==
    \E r1, r2 \in Returned("complete") :
        /\ r1 # r2
        /\ req[r1].session_id = req[r2].session_id
        /\ resp[r1].success /\ resp[r2].success
        /\ sessions[req[r1].session_id].status = "completed"

\* The session scrape calls on session s that returned success.
Scraped(s) == {r \in Returned("scrape") : resp[r].success /\ resp[r].session_id = s}

\* C7: whatever the interleaving of the session scrape calls on a session,
\* the session holds exactly one page per call that returned success and
\* total_pages is the number of those calls.
C7_ConcurrentScrapesAllCounted ==
    \A s \in DOMAIN sessions :
        /\ Len(sessions[s].pages) = Cardinality(Scraped(s))
        /\ sessions[s].total_pages = Cardinality(Scraped(s))
        /\ \A r \in Scraped(s) :
            Cardinality({i \in DOMAIN sessions[s].pages :
                            sessions[s].pages[i].page_id = resp[r].page_id}) = 1

\* Two scrape calls on one session overlapped (the one that stored its scrape
\* result first appended its page last) and both have returned.
C7_Witness ==
    \E s \in DOMAIN sessions :
        /\ Cardinality(Scraped(s)) = 2
        /\ Len(sessions[s].pages) = 2
        /\ sessions[s].pages[1].page_id > sessions[s].pages[2].page_id

\* C8: at the step that marks a session completed, the bundle complete goes
\* on to post holds every page of the session's page list.
C8_BundleIsFullSession ==
    [][ \A r \in Requests :
            (pc[r] = "mark" /\ pc'[r] = "post")
            => \A i \in DOMAIN sessions'[req[r].session_id].pages :
                    HasPage(loc'[r].session, sessions'[req[r].session_id].pages[i].page_id)
      ]_vars

\* An attempt failed: a transport error or timeout, or a non-success status.
AttemptFailed(outcome) == outcome = NoResponse \/ outcome \notin 200..299

\* C9: the fallback is tried only after the primary attempt failed, a fetch
\* whose two attempts both failed never goes on to store a result or append a
\* page, and a fetch that ends in FetchError stores nothing.
C9_FetchErrorIffBothFailed ==
    /\ [](\A r \in Requests :
            /\ loc[r].fallback # NotTried
               => (loc[r].primary # NotTried /\ AttemptFailed(loc[r].primary))
            /\ pc[r] \in {"save", "push"}
               => ~( /\ loc[r].fallback # NotTried
                     /\ AttemptFailed(loc[r].primary)
                     /\ AttemptFailed(loc[r].fallback) ))
    /\ [][ \A r \in Requests :
            (pc[r] = "fetch_fallback" /\ pc'[r] = "done")
            => /\ resp'[r].status_code = 500
               /\ scrapes' = scrapes
               /\ sessions' = sessions
       ]_vars

\* The webhook URL given to the start call that created session s.
StartWebhookUrl(s) ==
    LET r == CHOOSE q \in Returned("start") : resp[q].session_id = s
    IN  req[r].webhook_url

\* C10: a complete call on an existing session posts to its own webhook URL
\* when it has one, else to the URL given to start, and makes no POST only
\* when neither call gave a URL.
C10_WebhookUrlResolution ==
    \A r \in Returned("complete") :
        resp[r].status_code # 404
        => LET url == IF req[r].webhook_url # None
                      THEN req[r].webhook_url
                      ELSE StartWebhookUrl(req[r].session_id)
           IN  /\ url = None => PostsBy(r) = {}
               /\ url # None => /\ PostsBy(r) # {}
                                 /\ \A i \in PostsBy(r) : posts[i].url = url

(***************************************************************************)
(* extract_videos                                                          *)
(*                                                                         *)
(* The HTML is the sequence of the URLs it holds, each in the element that *)
(* carries it; a URL is a form (the text before the id) and an id.  A      *)
(* regular expression of the extractor matches the forms it spells out.    *)
(* <source> elements nested in a <video> are left out: they add Direct     *)
(* entries only.                                                           *)
(***************************************************************************)

\* Number of URLs in the HTML given to extract_videos.
MaxUrls == 2
\* Number of distinct video ids those URLs may carry.
NumVideoIds == 2
\* videos[:30]
MaxVideos == 30

VideoIds == 1..NumVideoIds
Tags == {"a", "iframe", "video"}
UrlForms == {"youtube.com/watch?v=", "youtu.be/", "youtube.com/embed/",
             "vimeo.com/", "player.vimeo.com/video/", "cdn.example/"}
HtmlUrls == [tag : Tags, form : UrlForms, id : VideoIds]
Htmls == UNION {[1..n -> HtmlUrls] : n \in 0..MaxUrls}
ScrapeOptions == [extract_youtube : BOOLEAN, extract_vimeo : BOOLEAN, extract_all_videos : BOOLEAN]

\* yt_patterns: one expression, an alternation of the three forms.
yt_patterns == << {"youtube.com/watch?v=", "youtu.be/", "youtube.com/embed/"} >>
\* vimeo_patterns: two expressions; the first does not match the player form,
\* where "vimeo.com/" is followed by "video/", not by digits.
vimeo_patterns == << {"vimeo.com/"}, {"player.vimeo.com/video/"} >>
\* The iframe test: 'video', 'embed' or 'player' occurs in src.
EmbedForms == {"youtube.com/embed/", "player.vimeo.com/video/"}

\* set(re.findall(pattern, html)): the ids of the URLs the pattern matches.
Matches(pattern, html) ==
    {html[i].id : i \in {j \in DOMAIN html : html[j].form \in pattern}}

Range(q) == {q[i] : i \in DOMAIN q}

\* The orders in which iterating over a set may yield its elements.
Orders(S) == {q \in [1..Cardinality(S) -> S] : Range(q) = S}

YouTubeEntry(video_id) ==
    [platform |-> "YouTube", video_id |-> video_id,
     url |-> [form |-> "youtube.com/watch?v=", id |-> video_id],
     embed_url |-> [form |-> "youtube.com/embed/", id |-> video_id],
     type |-> None]

VimeoEntry(video_id) ==
    [platform |-> "Vimeo", video_id |-> video_id,
     url |-> [form |-> "vimeo.com/", id |-> video_id],
     embed_url |-> [form |-> "player.vimeo.com/video/", id |-> video_id],
     type |-> None]

\* The entry of a <video src> (Direct) or of a matching <iframe src> (Embedded).
TagEntry(platform, type, u) ==
    [platform |-> platform, video_id |-> 0,
     url |-> [form |-> u.form, id |-> u.id],
     embed_url |-> NoUrl,
     type |-> type]

\* The loops over soup.find_all('video') and soup.find_all('iframe').
TagEntries(html) ==
    LET video == SelectSeq(html, LAMBDA u : u.tag = "video")
        iframe == SelectSeq(html, LAMBDA u : u.tag = "iframe" /\ u.form \in EmbedForms)
    IN  [i \in 1..Len(video) |-> TagEntry("Direct", "video", video[i])]
        \o [i \in 1..Len(iframe) |-> TagEntry("Embedded", "iframe", iframe[i])]

Take(q, n) == SubSeq(q, 1, IF Len(q) < n THEN Len(q) ELSE n)

\* The list extract_videos returns when the three sets are iterated in the
\* orders yt, vimeo1 and vimeo2.
Videos(html, options, yt, vimeo1, vimeo2) ==
    Take(
        (IF options.extract_youtube
         THEN [i \in DOMAIN yt |-> YouTubeEntry(yt[i])] ELSE <<>>)
        \o (IF options.extract_vimeo
            THEN [i \in DOMAIN vimeo1 |-> VimeoEntry(vimeo1[i])]
                 \o [i \in DOMAIN vimeo2 |-> VimeoEntry(vimeo2[i])]
            ELSE <<>>)
        \o (IF options.extract_all_videos THEN TagEntries(html) ELSE <<>>),
        MaxVideos)

\* One call of extract_videos on the HTML and options drawn at the start.
ExtractVideos ==
    /\ ~extraction.done
    /\ \E yt \in Orders(Matches(yt_patterns[1], extraction.html)),
          vimeo1 \in Orders(Matches(vimeo_patterns[1], extraction.html)),
          vimeo2 \in Orders(Matches(vimeo_patterns[2], extraction.html)) :
            extraction' = [extraction EXCEPT
                !.videos = Videos(extraction.html, extraction.options, yt, vimeo1, vimeo2),
                !.done = TRUE]
    /\ UNCHANGED <<sessions, scrapes, posts, pc, req, loc, resp, proxy>>

InitVideos ==
    /\ sessions = <<>>
    /\ scrapes = {}
    /\ posts = <<>>
    /\ pc = [r \in Requests |-> "idle"]
    /\ req = [r \in Requests |-> NoRequest]
    /\ loc = [r \in Requests |-> NoLocals]
    /\ resp = [r \in Requests |-> NoReply]
    /\ proxy = NoProxy
    /\ \E html \in Htmls, options \in ScrapeOptions :
            extraction = [NoExtraction EXCEPT !.html = html, !.options = options]

NextVideos == ExtractVideos

SpecVideos == InitVideos /\ [][NextVideos]_vars

\* The entries of the returned list for a platform and a video id.
EntriesFor(platform, video_id) ==
    {i \in DOMAIN extraction.videos :
        /\ extraction.videos[i].platform = platform
        /\ extraction.videos[i].video_id = video_id}

\* C11: the list extract_videos returns has at most one entry per YouTube id
\* and per Vimeo id, whichever URL forms the id appears in, and that entry
\* carries the canonical watch URL and embed URL of the id.
C11_OneEntryPerVideo ==
    extraction.done
    => \A video_id \in VideoIds :
        /\ Cardinality(EntriesFor("YouTube", video_id)) <= 1
        /\ Cardinality(EntriesFor("Vimeo", video_id)) <= 1
        /\ \A i \in EntriesFor("YouTube", video_id) :
                extraction.videos[i] = YouTubeEntry(video_id)
        /\ \A i \in EntriesFor("Vimeo", video_id) :
                extraction.videos[i] = VimeoEntry(video_id)

(***************************************************************************)
(* proxy_website                                                           *)
(*                                                                         *)
(* A fetched body is the part of the document the handler looks at:        *)
(* whether it has a <head>, and the elements in it, in order.              *)
(***************************************************************************)

\* Number of elements in the <head> of a fetched document.
MaxHeadElements == 2

\* The url query parameter: a URL, or the empty string.
EmptyUrl == ""
ProxyUrls == Urls \cup {EmptyUrl}

\* The content-type header of the fetched response; None when the header is absent.
ContentTypes == {None, "text/html", "text/html; charset=utf-8", "application/json", "image/png"}

\* 'text/html' in content_type
ContainsTextHtml(content_type) ==
    content_type \in {"text/html", "text/html; charset=utf-8"}

\* The elements a fetched <head> may hold.
HeadElements == {[name |-> "title", href |-> None], [name |-> "base", href |-> "http://b/"]}
Documents ==
    {NoDocument} \cup
    {[has_head |-> TRUE, head |-> h] : h \in UNION {[1..n -> HeadElements] : n \in 0..MaxHeadElements}}

\* What the GET of the proxied URL can do: raise, or answer with a status,
\* a content type and a body.
Fetches == [status_code : {NoResponse, 200, 404}, content_type : ContentTypes, body : Documents]

\* soup.new_tag('base', href=url)
BaseTag(url) == [name |-> "base", href |-> url]

\* if soup.head: soup.head.insert(0, base_tag)
InsertBase(body, url) ==
    IF body.has_head
    THEN [body EXCEPT !.head = <<BaseTag(url)>> \o @]
    ELSE body

\* The content returned: the parsed, rewritten and re-serialized document
\* for HTML, response.content as it came otherwise.
Rewrite(content_type, body, url) ==
    IF ContainsTextHtml(content_type)
    THEN [parsed |-> TRUE, content |-> InsertBase(body, url)]
    ELSE [parsed |-> FALSE, content |-> body]

\* One call of proxy_website on the url and the fetch drawn at the start.
ProxyWebsite ==
    /\ ~proxy.done
    /\ LET url == proxy.url
           response == proxy.fetch
           content_type == IF response.content_type = None
                           THEN "text/html" ELSE response.content_type
           rewritten == Rewrite(content_type, response.body, url)
       IN  proxy' = [proxy EXCEPT
                !.done = TRUE,
                !.reply =
                    IF url = EmptyUrl
                    THEN [@ EXCEPT !.status_code = 400]
                    ELSE IF response.status_code = NoResponse
                    THEN [@ EXCEPT !.status_code = 500]
                    ELSE [status_code |-> response.status_code,
                          media_type |-> content_type,
                          parsed |-> rewritten.parsed,
                          content |-> rewritten.content]]
    /\ UNCHANGED <<sessions, scrapes, posts, pc, req, loc, resp, extraction>>

InitProxy ==
    /\ sessions = <<>>
    /\ scrapes = {}
    /\ posts = <<>>
    /\ pc = [r \in Requests |-> "idle"]
    /\ req = [r \in Requests |-> NoRequest]
    /\ loc = [r \in Requests |-> NoLocals]
    /\ resp = [r \in Requests |-> NoReply]
    /\ extraction = NoExtraction
    /\ \E url \in ProxyUrls, fetch \in Fetches :
            proxy = [NoProxy EXCEPT !.url = url, !.fetch = fetch]

NextProxy == ProxyWebsite

SpecProxy == InitProxy /\ [][NextProxy]_vars

\* proxy_website answered with the fetched response (it raised no error).
Proxied == proxy.done /\ proxy.reply.status_code \notin {400, 500}

\* C12: when the fetched response's content type contains text/html, the
\* returned document has a <head> whose first element is <base href=url>,
\* also when the fetched document had no <head>; otherwise the returned
\* content is the fetched body, unparsed and unchanged.
C12_BaseFirstInHead ==
    Proxied
    => IF ContainsTextHtml(proxy.reply.media_type)
       THEN /\ proxy.reply.content.has_head
            /\ Len(proxy.reply.content.head) >= 1
            /\ proxy.reply.content.head[1] = BaseTag(proxy.url)
       ELSE /\ ~proxy.reply.parsed
            /\ proxy.reply.content = proxy.fetch.body

====
